---------------------------- MODULE Spec2Model ----------------------------
(***************************************************************************)
(* Model of src/app.py: the GitHub webhook receiver (POST /webhook), its   *)
(* three normalizers, format_timestamp, and the read endpoint              *)
(* (GET /api/events) over the MongoDB collection "events".                 *)
(*                                                                         *)
(* Strings are sequences of one-character strings, so that str.replace,   *)
(* datetime.fromisoformat and strftime are computed character by          *)
(* character.  JSON values are tagged records:                             *)
(*   [t |-> "str", s |-> chars]   [t |-> "num", n |-> Nat]                 *)
(*   [t |-> "bool", b |-> BOOLEAN] [t |-> "null"]                          *)
(*   [t |-> "obj", o |-> function from keys to JSON values]                *)
(***************************************************************************)
EXTENDS Integers, Sequences, FiniteSets, TLC

VARIABLES
    store,      \* the collection: sequence of documents in insertion order
    via,        \* ghost, parallel to store: X-GitHub-Event header of the delivery
    seenAt,     \* ghost, parallel to store: Len(store) when the delivery read the clock
    now,        \* the UTC clock read by datetime.utcnow()
    pc,         \* per worker: "idle" | "insert" (between line 83 and line 86) | "done"
    op,         \* per worker: "none" | "webhook" | "events": the route being served
    req,        \* per worker: the request, [header, payload]
    ev,         \* per worker: event_data of the request in flight
    outcome,    \* per worker: "none" | "processed" | "ignored" | "failed" | "ok"
    events,     \* per worker: the body returned by get_events
    readN,      \* ghost, per worker: Len(store) when get_events ran its query
    seen,       \* ghost, per worker: Len(store) when the request read the clock
    attempts,   \* ghost, per worker: insert_one calls made by the current request
    appended    \* ghost, per worker: documents the current request added to store

vars == <<store, via, seenAt, now, pc, op, req, ev, outcome, events, readN,
          seen, attempts, appended>>

---------------------------------------------------------------------------
(* String literals of the source.                                          *)

S_empty == <<>>
S_Unknown == <<"U","n","k","n","o","w","n">>
S_refs_heads == <<"r","e","f","s","/","h","e","a","d","s","/">>
S_Z == <<"Z">>
S_utc_offset == <<"+","0","0",":","0","0">>
S_pushed_to == <<" ","p","u","s","h","e","d"," ","t","o"," ">>
S_on == <<" ","o","n"," ">>
S_submitted == <<" ","s","u","b","m","i","t","t","e","d"," ","a"," ","p","u","l","l"," ","r","e","q","u","e","s","t"," ","f","r","o","m"," ">>
S_to == <<" ","t","o"," ">>
S_merged_branch == <<" ","m","e","r","g","e","d"," ","b","r","a","n","c","h"," ">>
S_None == <<"N","o","n","e">>
S_True == <<"T","r","u","e">>
S_False == <<"F","a","l","s","e">>
S_sep == <<" ","-"," ">>
S_colon == <<":">>
S_space == <<" ">>
S_AM == <<"A","M">>
S_PM == <<"P","M">>
S_UTC == <<" ","U","T","C">>
S_opened == <<"o","p","e","n","e","d">>
S_closed == <<"c","l","o","s","e","d">>
S_push == <<"p","u","s","h">>
S_pull_request == <<"p","u","l","l","_","r","e","q","u","e","s","t">>
S_merge == <<"m","e","r","g","e">>

MonthName ==
    << <<"J","a","n","u","a","r","y">>,
       <<"F","e","b","r","u","a","r","y">>,
       <<"M","a","r","c","h">>,
       <<"A","p","r","i","l">>,
       <<"M","a","y">>,
       <<"J","u","n","e">>,
       <<"J","u","l","y">>,
       <<"A","u","g","u","s","t">>,
       <<"S","e","p","t","e","m","b","e","r">>,
       <<"O","c","t","o","b","e","r">>,
       <<"N","o","v","e","m","b","e","r">>,
       <<"D","e","c","e","m","b","e","r">> >>

---------------------------------------------------------------------------
(* JSON values and the Python operations the source applies to them.       *)

Str(s) == [t |-> "str", s |-> s]
Num(n) == [t |-> "num", n |-> n]
Bool(b) == [t |-> "bool", b |-> b]
Null == [t |-> "null"]
Obj(f) == [t |-> "obj", o |-> f]
EmptyObj == Obj(<<>>)

\* Only a dict has a .get method: .get on None, a str, a number or a bool
\* raises AttributeError.
HasGet(v) == v.t = "obj"

\* dict.get(k, default): a key that is present with the value null yields
\* null, not the default.
Get(d, k, default) == IF k \in DOMAIN d.o THEN d.o[k] ELSE default

\* Python truthiness, as tested by "if" / "and".
Truthy(v) ==
    CASE v.t = "bool" -> v.b
      [] v.t = "num"  -> v.n # 0
      [] v.t = "str"  -> v.s # <<>>
      [] v.t = "obj"  -> DOMAIN v.o # {}
      [] OTHER        -> FALSE

\* v == 'literal' for a str literal of the source.
EqStr(v, lit) == v.t = "str" /\ v.s = lit

DigitChars == <<"0","1","2","3","4","5","6","7","8","9">>

RECURSIVE Dec(_)
\* The decimal digits of a natural number.
Dec(n) == IF n < 10 THEN <<DigitChars[n + 1]>>
          ELSE Dec(n \div 10) \o <<DigitChars[(n % 10) + 1]>>

\* str(v), also what an f-string field renders.  Containers are not
\* rendered by any payload of the model.
PyStr(v) ==
    CASE v.t = "str"  -> v.s
      [] v.t = "num"  -> Dec(v.n)
      [] v.t = "bool" -> IF v.b THEN S_True ELSE S_False
      [] v.t = "null" -> S_None

RECURSIVE Replace(_, _, _)
\* str.replace(old, new): every non-overlapping occurrence, left to right.
Replace(s, old, new) ==
    IF Len(s) < Len(old) THEN s
    ELSE IF SubSeq(s, 1, Len(old)) = old
         THEN new \o Replace(SubSeq(s, Len(old) + 1, Len(s)), old, new)
         ELSE <<s[1]>> \o Replace(Tail(s), old, new)

---------------------------------------------------------------------------
(* format_timestamp, lines 17-23.                                          *)

IsDigit(c) == \E i \in 1..10 : DigitChars[i] = c

DigitVal(c) == (CHOOSE i \in 1..10 : DigitChars[i] = c) - 1

AllDigits(s, from, to) == \A i \in from..to : IsDigit(s[i])

RECURSIVE NumAt(_, _, _)
\* The number written by the digits s[from..to].
NumAt(s, from, to) ==
    IF from > to THEN 0
    ELSE NumAt(s, from, to - 1) * 10 + DigitVal(s[to])

IsLeap(y) == (y % 4 = 0 /\ y % 100 # 0) \/ y % 400 = 0

DaysInMonth(y, m) ==
    IF m = 2 THEN (IF IsLeap(y) THEN 29 ELSE 28)
    ELSE IF m \in {4, 6, 9, 11} THEN 30 ELSE 31

\* YYYY-MM-DD at s[1..10], a date of the calendar.
DateOk(s) ==
    /\ Len(s) >= 10
    /\ AllDigits(s, 1, 4) /\ s[5] = "-" /\ AllDigits(s, 6, 7)
    /\ s[8] = "-" /\ AllDigits(s, 9, 10)
    /\ NumAt(s, 1, 4) >= 1
    /\ NumAt(s, 6, 7) \in 1..12
    /\ NumAt(s, 9, 10) \in 1..DaysInMonth(NumAt(s, 1, 4), NumAt(s, 6, 7))

\* HH:MM:SS at s[12..19]; s[11] is the separator, any one character.
TimeOk(s) ==
    /\ Len(s) >= 19
    /\ AllDigits(s, 12, 13) /\ s[14] = ":" /\ AllDigits(s, 15, 16)
    /\ s[17] = ":" /\ AllDigits(s, 18, 19)
    /\ NumAt(s, 12, 13) <= 23 /\ NumAt(s, 15, 16) <= 59 /\ NumAt(s, 18, 19) <= 59

\* +HH:MM or -HH:MM at s[20..25].
OffsetOk(s) ==
    /\ Len(s) = 25
    /\ s[20] \in {"+", "-"}
    /\ AllDigits(s, 21, 22) /\ s[23] = ":" /\ AllDigits(s, 24, 25)
    /\ NumAt(s, 21, 22) <= 23 /\ NumAt(s, 24, 25) <= 59

\* datetime.fromisoformat succeeds.  The forms modelled are the date alone,
\* date and HH:MM:SS, and date, HH:MM:SS and a UTC offset; every timestamp
\* string of the model is of one of these forms or is rejected by
\* fromisoformat.
IsoParses(s) ==
    \/ Len(s) = 10 /\ DateOk(s)
    \/ Len(s) = 19 /\ DateOk(s) /\ TimeOk(s)
    \/ Len(s) = 25 /\ DateOk(s) /\ TimeOk(s) /\ OffsetOk(s)

Pad2(n) == IF n < 10 THEN <<"0">> \o Dec(n) ELSE Dec(n)

\* dt.strftime('%d %B %Y - %I:%M %p UTC') of the datetime parsed from s:
\* the wall-clock fields as written, whatever the offset.
Strftime(s) ==
    LET hour == IF Len(s) >= 19 THEN NumAt(s, 12, 13) ELSE 0
        minute == IF Len(s) >= 19 THEN NumAt(s, 15, 16) ELSE 0
        hour12 == IF hour % 12 = 0 THEN 12 ELSE hour % 12
    IN  Pad2(NumAt(s, 9, 10)) \o S_space \o MonthName[NumAt(s, 6, 7)] \o S_space
        \o Dec(NumAt(s, 1, 4)) \o S_sep \o Pad2(hour12) \o S_colon \o Pad2(minute)
        \o S_space \o (IF hour < 12 THEN S_AM ELSE S_PM) \o S_UTC

\* A value without .replace (not a str) raises inside the try and the bare
\* except returns it unchanged, as does a string fromisoformat rejects.
format_timestamp(timestamp_str) ==
    IF timestamp_str.t # "str" THEN timestamp_str
    ELSE LET iso == Replace(timestamp_str.s, S_Z, S_utc_offset)
         IN  IF IsoParses(iso) THEN Str(Strftime(iso)) ELSE timestamp_str

---------------------------------------------------------------------------
(* The normalizers, lines 25-60.  A normalizer either returns the event    *)
(* dict or raises AttributeError (.get or .replace on a value that has no  *)
(* such method); webhook()'s except clause catches the exception.          *)

Raised == [k |-> "raise"]
NoEvent == [k |-> "none"]
Returned(doc) == [k |-> "event", doc |-> doc]

\* The to_branch of a push: payload.get('ref', '').replace('refs/heads/', '').
push_to_branch(ref) == Replace(ref, S_refs_heads, S_empty)

\* process_push_event with the message built from the ref as received.
process_push_event_raw_ref(payload) ==
    IF ~HasGet(payload) THEN Raised
    ELSE
    LET pusher == Get(payload, "pusher", EmptyObj)
        ref == Get(payload, "ref", Str(S_empty))
        head_commit == Get(payload, "head_commit", EmptyObj)
    IN  IF ~HasGet(pusher) \/ ref.t # "str" \/ ~HasGet(head_commit) THEN Raised
        ELSE Returned(
          [id        |-> Get(payload, "after", Str(S_empty)),
           author    |-> Get(pusher, "name", Str(S_Unknown)),
           to_branch |-> Str(push_to_branch(ref.s)),
           timestamp |-> format_timestamp(Get(head_commit, "timestamp", Str(S_empty))),
           action    |-> Str(S_push),
           message   |-> Str(PyStr(Get(pusher, "name", Str(S_Unknown)))
                             \o S_pushed_to
                             \o ref.s
                             \o S_on
                             \o PyStr(format_timestamp(
                                    Get(head_commit, "timestamp", Str(S_empty)))))])

process_push_event(payload) ==
    IF ~HasGet(payload) THEN Raised
    ELSE
    LET pusher == Get(payload, "pusher", EmptyObj)
        ref == Get(payload, "ref", Str(S_empty))
        head_commit == Get(payload, "head_commit", EmptyObj)
    IN  IF ~HasGet(pusher) \/ ref.t # "str" \/ ~HasGet(head_commit) THEN Raised
        ELSE Returned(
          [id        |-> Get(payload, "after", Str(S_empty)),
           author    |-> Get(pusher, "name", Str(S_Unknown)),
           to_branch |-> Str(push_to_branch(ref.s)),
           timestamp |-> format_timestamp(Get(head_commit, "timestamp", Str(S_empty))),
           action    |-> Str(S_push),
           message   |-> Str(PyStr(Get(pusher, "name", Str(S_Unknown)))
                             \o S_pushed_to
                             \o push_to_branch(ref.s)
                             \o S_on
                             \o PyStr(format_timestamp(
                                    Get(head_commit, "timestamp", Str(S_empty)))))])

process_pull_request_event(payload) ==
    IF ~HasGet(payload) THEN Raised
    ELSE
    LET pr == Get(payload, "pull_request", EmptyObj) IN
    IF ~HasGet(pr) THEN Raised
    ELSE
    LET user == Get(pr, "user", EmptyObj)
        head == Get(pr, "head", EmptyObj)
        base == Get(pr, "base", EmptyObj)
    IN  IF ~HasGet(user) \/ ~HasGet(head) \/ ~HasGet(base) THEN Raised
        ELSE Returned(
          [id          |-> Str(PyStr(Get(pr, "id", Str(S_empty)))),
           author      |-> Get(user, "login", Str(S_Unknown)),
           from_branch |-> Get(head, "ref", Str(S_empty)),
           to_branch   |-> Get(base, "ref", Str(S_empty)),
           timestamp   |-> format_timestamp(Get(pr, "created_at", Str(S_empty))),
           action      |-> Str(S_pull_request),
           message     |-> Str(PyStr(Get(user, "login", Str(S_Unknown)))
                               \o S_submitted
                               \o PyStr(Get(head, "ref", Str(S_empty)))
                               \o S_to
                               \o PyStr(Get(base, "ref", Str(S_empty)))
                               \o S_on
                               \o PyStr(format_timestamp(
                                      Get(pr, "created_at", Str(S_empty)))))])

process_merge_event(payload) ==
    IF ~HasGet(payload) THEN Raised
    ELSE
    LET pr == Get(payload, "pull_request", EmptyObj) IN
    IF ~HasGet(pr) THEN Raised
    ELSE
    LET merged_by == Get(pr, "merged_by", EmptyObj)
        head == Get(pr, "head", EmptyObj)
        base == Get(pr, "base", EmptyObj)
    IN  IF ~HasGet(merged_by) \/ ~HasGet(head) \/ ~HasGet(base) THEN Raised
        ELSE Returned(
          [id          |-> Str(PyStr(Get(pr, "id", Str(S_empty)))),
           author      |-> Get(merged_by, "login", Str(S_Unknown)),
           from_branch |-> Get(head, "ref", Str(S_empty)),
           to_branch   |-> Get(base, "ref", Str(S_empty)),
           timestamp   |-> format_timestamp(Get(pr, "merged_at", Str(S_empty))),
           action      |-> Str(S_merge),
           message     |-> Str(PyStr(Get(merged_by, "login", Str(S_Unknown)))
                               \o S_merged_branch
                               \o PyStr(Get(head, "ref", Str(S_empty)))
                               \o S_to
                               \o PyStr(Get(base, "ref", Str(S_empty)))
                               \o S_on
                               \o PyStr(format_timestamp(
                                      Get(pr, "merged_at", Str(S_empty)))))])

---------------------------------------------------------------------------
(* webhook(), lines 65-93, up to the insert.                               *)

\* Dispatch with a closed and merged pull request handed to the normalizer
\* of opened pull requests.
Dispatch_merge_as_opened(event_type, payload) ==
    IF event_type = "push" THEN process_push_event(payload)
    ELSE IF event_type = "pull_request" THEN
        IF ~HasGet(payload) THEN Raised
        ELSE
        LET action == Get(payload, "action", Null) IN
        IF EqStr(action, S_opened) THEN process_pull_request_event(payload)
        ELSE IF EqStr(action, S_closed) THEN
            LET pr == Get(payload, "pull_request", EmptyObj) IN
            IF ~HasGet(pr) THEN Raised
            ELSE IF Truthy(Get(pr, "merged", Null))
                 THEN process_pull_request_event(payload)
                 ELSE NoEvent
        ELSE NoEvent
    ELSE NoEvent

\* Lines 69-78: event_data as selected by the X-GitHub-Event header, the
\* payload's action and the merged flag.
Dispatch(event_type, payload) ==
    IF event_type = "push" THEN process_push_event(payload)
    ELSE IF event_type = "pull_request" THEN
        IF ~HasGet(payload) THEN Raised
        ELSE
        LET action == Get(payload, "action", Null) IN
        IF EqStr(action, S_opened) THEN process_pull_request_event(payload)
        ELSE IF EqStr(action, S_closed) THEN
            LET pr == Get(payload, "pull_request", EmptyObj) IN
            IF ~HasGet(pr) THEN Raised
            ELSE IF Truthy(Get(pr, "merged", Null))
                 THEN process_merge_event(payload)
                 ELSE NoEvent
        ELSE NoEvent
    ELSE NoEvent

\* AddMetadata with the instant stored negated.
AddMetadata_negated(doc, utcnow, payload) ==
    doc @@ ("created_at" :> (0 - utcnow)) @@ ("raw_payload" :> payload)

\* Lines 82-83: the metadata added to event_data before the insert.
AddMetadata(doc, utcnow, payload) ==
    doc @@ ("created_at" :> utcnow) @@ ("raw_payload" :> payload)

---------------------------------------------------------------------------
(* Requests: the deliveries the model sends to POST /webhook.              *)

T_bob == <<"b","o","b">>
T_amy == <<"a","m","y">>
T_main == <<"m","a","i","n">>
T_dev == <<"d","e","v">>
T_sha == <<"c","0","f","f","e","e">>
T_yes == <<"y","e","s">>
T_reopened == <<"r","e","o","p","e","n","e","d">>
T_ref_main == <<"r","e","f","s","/","h","e","a","d","s","/","m","a","i","n">>
T_ref_tag == <<"r","e","f","s","/","t","a","g","s","/","r","e","f","s","/","h","e","a","d","s","/","m","a","i","n">>
T_ref_nested == <<"r","e","f","s","/","h","e","a","d","s","/","f","i","x","/","r","e","f","s","/","h","e","a","d","s","/","x">>
T_iso_z == <<"2","0","2","4","-","0","3","-","1","5","T","1","4",":","3","0",":","0","0","Z">>
T_iso_offset == <<"2","0","2","3","-","1","2","-","0","1","T","0","0",":","0","5",":","0","9","+","0","5",":","3","0">>
T_not_a_date == <<"n","o","t","-","a","-","d","a","t","e">>

\* Push payloads: complete; empty; ref without the prefix, no pusher.name
\* and an unparseable timestamp; "refs/heads/" inside the ref (a tag and a
\* branch so named); null name and timestamp; head_commit null, as GitHub
\* sends for a push that deletes a branch; pusher null.
PushPayloads ==
    { Obj([after |-> Str(T_sha), pusher |-> Obj([name |-> Str(T_bob)]),
           ref |-> Str(T_ref_main),
           head_commit |-> Obj([timestamp |-> Str(T_iso_z)])]),
      EmptyObj,
      Obj([ref |-> Str(T_main), pusher |-> EmptyObj,
           head_commit |-> Obj([timestamp |-> Str(T_not_a_date)])]),
      Obj([ref |-> Str(T_ref_tag), pusher |-> Obj([name |-> Str(T_amy)])]),
      Obj([ref |-> Str(T_ref_nested), pusher |-> Obj([name |-> Str(T_amy)])]),
      Obj([ref |-> Str(T_ref_main), pusher |-> Obj([name |-> Null]),
           head_commit |-> Obj([timestamp |-> Null])]),
      Obj([after |-> Str(T_sha), pusher |-> Obj([name |-> Str(T_bob)]),
           ref |-> Str(T_ref_main), head_commit |-> Null]),
      Obj([ref |-> Str(T_ref_main), pusher |-> Null]) }

\* The pull_request object of a complete payload, with the given merged flag.
FullPR(merged) ==
    Obj([id |-> Num(7), user |-> Obj([login |-> Str(T_amy)]),
         head |-> Obj([ref |-> Str(T_dev)]), base |-> Obj([ref |-> Str(T_main)]),
         created_at |-> Str(T_iso_z), merged_at |-> Str(T_iso_offset),
         merged_by |-> Obj([login |-> Str(T_bob)]), merged |-> merged])

\* Pull-request payloads: opened (complete, no pull_request, user null);
\* closed with merged true, false, absent, a truthy non-boolean, with
\* pull_request absent or null, and merged with merged_by null; another
\* action; no action.
PullRequestPayloads ==
    { Obj([action |-> Str(S_opened), pull_request |-> FullPR(Bool(FALSE))]),
      Obj([action |-> Str(S_opened)]),
      Obj([action |-> Str(S_opened), pull_request |-> Obj([user |-> Null])]),
      Obj([action |-> Str(S_closed), pull_request |-> FullPR(Bool(TRUE))]),
      Obj([action |-> Str(S_closed), pull_request |-> FullPR(Bool(FALSE))]),
      Obj([action |-> Str(S_closed), pull_request |-> EmptyObj]),
      Obj([action |-> Str(S_closed), pull_request |-> Obj([merged |-> Str(T_yes)])]),
      Obj([action |-> Str(S_closed)]),
      Obj([action |-> Str(S_closed), pull_request |-> Null]),
      Obj([action |-> Str(S_closed),
           pull_request |-> Obj([merged |-> Bool(TRUE), merged_by |-> Null])]),
      Obj([action |-> Str(T_reopened), pull_request |-> FullPR(Bool(FALSE))]),
      Obj([pull_request |-> FullPR(Bool(TRUE))]) }

\* Values of the X-GitHub-Event header; "" stands for the header being absent.
Headers == {"push", "pull_request", "issues", ""}

Request(header, payload) == [header |-> header, payload |-> payload]

\* Every header with every payload.
AllRequests ==
    { Request(h, p) : h \in Headers, p \in PushPayloads \cup PullRequestPayloads }

---------------------------------------------------------------------------
(* The read path, lines 98-102.                                            *)

\* limit(20)
PageLimit == 20

Min(a, b) == IF a < b THEN a ELSE b

\* The sort order of sort('created_at', -1): document a comes before
\* document b.  MongoDB leaves the order of documents with equal keys open;
\* tb picks it, in insertion order ("asc") or against it ("desc"), the
\* insertion order being that of _id.
SortsBefore(a, b, tb) ==
    \/ a.created_at > b.created_at
    \/ /\ a.created_at = b.created_at
       /\ IF tb = "asc" THEN a._id < b._id ELSE a._id > b._id

RECURSIVE InsertSorted(_, _, _)
\* doc placed into the sorted sequence.
InsertSorted(sorted, doc, tb) ==
    IF sorted = <<>> THEN <<doc>>
    ELSE IF SortsBefore(doc, Head(sorted), tb) THEN <<doc>> \o sorted
    ELSE <<Head(sorted)>> \o InsertSorted(Tail(sorted), doc, tb)

RECURSIVE Sort(_, _)
\* cursor.sort('created_at', -1)
Sort(docs, tb) ==
    IF docs = <<>> THEN <<>>
    ELSE InsertSorted(Sort(Tail(docs), tb), Head(docs), tb)

\* The projection {'_id': 0, 'raw_payload': 0}.
Project(doc) == [f \in (DOMAIN doc) \ {"_id", "raw_payload"} |-> doc[f]]

\* Find without the sort: the first 20 documents in insertion order.
Find_no_sort(docs, tb) ==
    LET limited == SubSeq(docs, 1, Min(Len(docs), PageLimit))
    IN  [k \in 1..Len(limited) |-> Project(limited[k])]

\* collection.find({}, projection).sort('created_at', -1).limit(20)
Find(docs, tb) ==
    LET limited == SubSeq(Sort(docs, tb), 1, Min(Len(docs), PageLimit))
    IN  [k \in 1..Len(limited) |-> Project(limited[k])]

---------------------------------------------------------------------------
(* The state machine.  A worker serves one request at a time; the only     *)
(* point where a webhook request can be overtaken by another worker is the *)
(* storage call insert_one (line 86), which follows the clock read of      *)
(* line 82.                                                                *)

Workers == {"w1", "w2"}

NoRequest == Request("", EmptyObj)

Init ==
    /\ store = <<>>
    /\ via = <<>>
    /\ seenAt = <<>>
    /\ now = 0
    /\ pc = [w \in Workers |-> "idle"]
    /\ op = [w \in Workers |-> "none"]
    /\ req = [w \in Workers |-> NoRequest]
    /\ ev = [w \in Workers |-> NoEvent]
    /\ outcome = [w \in Workers |-> "none"]
    /\ events = [w \in Workers |-> <<>>]
    /\ readN = [w \in Workers |-> 0]
    /\ seen = [w \in Workers |-> 0]
    /\ attempts = [w \in Workers |-> 0]
    /\ appended = [w \in Workers |-> 0]

\* Requests between their clock read and their insert.
Pending == Cardinality({w \in Workers : pc[w] = "insert"})

\* webhook(), lines 65-83 and the returns of lines 90 and 93 that precede
\* any storage call: worker w takes delivery r, whose body request.json has
\* parsed.  created_at is the clock as read at line 82 (BSON keeps it to the
\* millisecond, which preserves its order).  cap bounds the documents the
\* run may store.
webhook(w, r, cap) ==
    /\ pc[w] # "insert"
    /\ LET d == Dispatch(r.header, r.payload) IN
       /\ d.k = "event" => Len(store) + Pending < cap
       /\ pc' = [pc EXCEPT ![w] = IF d.k = "event" THEN "insert" ELSE "done"]
       /\ ev' = [ev EXCEPT ![w] =
                    IF d.k = "event"
                    THEN Returned(AddMetadata(d.doc, now, r.payload))
                    ELSE NoEvent]
       /\ outcome' = [outcome EXCEPT ![w] =
                    IF d.k = "raise" THEN "failed"
                    ELSE IF d.k = "none" THEN "ignored" ELSE "none"]
    /\ op' = [op EXCEPT ![w] = "webhook"]
    /\ req' = [req EXCEPT ![w] = r]
    /\ events' = [events EXCEPT ![w] = <<>>]
    /\ readN' = [readN EXCEPT ![w] = 0]
    /\ seen' = [seen EXCEPT ![w] = Len(store)]
    /\ attempts' = [attempts EXCEPT ![w] = 0]
    /\ appended' = [appended EXCEPT ![w] = 0]
    /\ UNCHANGED <<store, via, seenAt, now>>

\* insert_ok as an upsert keyed by the event id: a document with the same id
\* is replaced in place.
insert_upsert(w) ==
    /\ pc[w] = "insert"
    /\ LET same == {i \in 1..Len(store) : store[i].id = ev[w].doc.id} IN
       IF same = {}
       THEN store' = Append(store, ev[w].doc @@ ("_id" :> Len(store) + 1))
            /\ via' = Append(via, req[w].header)
            /\ seenAt' = Append(seenAt, seen[w])
       ELSE LET i == CHOOSE i \in same : TRUE IN
            store' = [store EXCEPT ![i] = ev[w].doc @@ ("_id" :> i)]
            /\ UNCHANGED <<via, seenAt>>
    /\ pc' = [pc EXCEPT ![w] = "done"]
    /\ ev' = [ev EXCEPT ![w] = NoEvent]
    /\ outcome' = [outcome EXCEPT ![w] = "processed"]
    /\ attempts' = [attempts EXCEPT ![w] = @ + 1]
    /\ appended' = [appended EXCEPT ![w] = @ + 1]
    /\ UNCHANGED <<now, op, req, events, readN, seen>>

\* Lines 86-88: insert_one stores the document, giving it its _id, and the
\* request returns 'success'.
insert_ok(w) ==
    /\ pc[w] = "insert"
    /\ store' = Append(store, ev[w].doc @@ ("_id" :> Len(store) + 1))
    /\ via' = Append(via, req[w].header)
    /\ seenAt' = Append(seenAt, seen[w])
    /\ pc' = [pc EXCEPT ![w] = "done"]
    /\ ev' = [ev EXCEPT ![w] = NoEvent]
    /\ outcome' = [outcome EXCEPT ![w] = "processed"]
    /\ attempts' = [attempts EXCEPT ![w] = @ + 1]
    /\ appended' = [appended EXCEPT ![w] = @ + 1]
    /\ UNCHANGED <<now, op, req, events, readN, seen>>

\* insert_fail with the failed insert tried again instead of reported.
insert_fail_retry(w) ==
    /\ pc[w] = "insert"
    /\ attempts[w] < 2
    /\ attempts' = [attempts EXCEPT ![w] = @ + 1]
    /\ UNCHANGED <<store, via, seenAt, now, pc, op, req, ev, outcome, events,
                   readN, seen, appended>>

\* Lines 86, 92-93: insert_one raises, nothing is stored, and the except
\* clause returns the error.
insert_fail(w) ==
    /\ pc[w] = "insert"
    /\ pc' = [pc EXCEPT ![w] = "done"]
    /\ ev' = [ev EXCEPT ![w] = NoEvent]
    /\ outcome' = [outcome EXCEPT ![w] = "failed"]
    /\ attempts' = [attempts EXCEPT ![w] = @ + 1]
    /\ UNCHANGED <<store, via, seenAt, now, op, req, events, readN, seen, appended>>

\* get_events(), lines 98-104: the query succeeds.
get_events(w) ==
    /\ pc[w] # "insert"
    /\ \E tb \in {"asc", "desc"} :
          events' = [events EXCEPT ![w] = Find(store, tb)]
    /\ pc' = [pc EXCEPT ![w] = "done"]
    /\ op' = [op EXCEPT ![w] = "events"]
    /\ req' = [req EXCEPT ![w] = NoRequest]
    /\ outcome' = [outcome EXCEPT ![w] = "ok"]
    /\ readN' = [readN EXCEPT ![w] = Len(store)]
    /\ seen' = [seen EXCEPT ![w] = 0]
    /\ attempts' = [attempts EXCEPT ![w] = 0]
    /\ appended' = [appended EXCEPT ![w] = 0]
    /\ UNCHANGED <<store, via, seenAt, now, ev>>

\* get_events(), lines 105-106: the query raises and the error object is
\* returned in place of the list.
get_events_fail(w) ==
    /\ pc[w] # "insert"
    /\ events' = [events EXCEPT ![w] = <<>>]
    /\ pc' = [pc EXCEPT ![w] = "done"]
    /\ op' = [op EXCEPT ![w] = "events"]
    /\ req' = [req EXCEPT ![w] = NoRequest]
    /\ outcome' = [outcome EXCEPT ![w] = "failed"]
    /\ readN' = [readN EXCEPT ![w] = Len(store)]
    /\ seen' = [seen EXCEPT ![w] = 0]
    /\ attempts' = [attempts EXCEPT ![w] = 0]
    /\ appended' = [appended EXCEPT ![w] = 0]
    /\ UNCHANGED <<store, via, seenAt, now, ev>>

MaxClock == 1

\* Time passes: a later datetime.utcnow() returns a later instant.
Tick ==
    /\ now < MaxClock
    /\ now' = now + 1
    /\ UNCHANGED <<store, via, seenAt, pc, op, req, ev, outcome, events, readN,
                   seen, attempts, appended>>

---------------------------------------------------------------------------
(* Spec: two workers serve deliveries and reads concurrently.              *)

MaxStore == 2

\* A complete push, a push GitHub sends for a deleted branch, and an event
\* type the receiver does not handle.
Requests ==
    { Request("push",
        Obj([after |-> Str(T_sha), pusher |-> Obj([name |-> Str(T_bob)]),
             ref |-> Str(T_ref_main),
             head_commit |-> Obj([timestamp |-> Str(T_iso_z)])])),
      Request("push",
        Obj([after |-> Str(T_sha), pusher |-> Obj([name |-> Str(T_bob)]),
             ref |-> Str(T_ref_main), head_commit |-> Null])),
      Request("issues", Obj([action |-> Str(S_opened)])) }

Next ==
    \/ \E w \in Workers, r \in Requests : webhook(w, r, MaxStore)
    \/ \E w \in Workers : insert_ok(w)
    \/ \E w \in Workers : insert_fail(w)
    \/ \E w \in Workers : get_events(w)
    \/ \E w \in Workers : get_events_fail(w)
    \/ Tick

Spec == Init /\ [][Next]_vars

---------------------------------------------------------------------------
(* SpecDispatch: one worker, every header with every payload.              *)

MaxStoreDispatch == 1

NextDispatch ==
    \/ \E r \in AllRequests : webhook("w1", r, MaxStoreDispatch)
    \/ insert_ok("w1")
    \/ insert_fail("w1")

SpecDispatch == Init /\ [][NextDispatch]_vars

---------------------------------------------------------------------------
(* SpecRead: the collection grows past the page limit.  Worker w1 delivers *)
(* and reads; worker w2 delivers while the collection holds fewer than     *)
(* MaxOverlap documents, so that documents are stored out of created_at    *)
(* order.                                                                  *)

MaxStoreRead == 21

MaxOverlap == 3

EmptyPush == Request("push", EmptyObj)

NextRead ==
    \/ webhook("w1", EmptyPush, MaxStoreRead)
    \/ store = <<>> /\ webhook("w2", EmptyPush, MaxStoreRead)
    \/ insert_ok("w1")
    \/ Len(store) < MaxOverlap /\ insert_ok("w2")
    \/ get_events("w1")
    \/ get_events_fail("w1")
    \/ Tick

SpecRead == Init /\ [][NextRead]_vars

---------------------------------------------------------------------------
(* Properties.                                                             *)

\* Worker w has returned from webhook().
Done(w) == pc[w] = "done" /\ op[w] = "webhook"

\* payload.action == lit
ActionIs(payload, lit) == EqStr(Get(payload, "action", Null), lit)

\* payload.pull_request.merged == true
MergedIsTrue(payload) ==
    LET pr == Get(payload, "pull_request", Null)
    IN  pr.t = "obj" /\ "merged" \in DOMAIN pr.o /\ pr.o["merged"] = Bool(TRUE)

\* The dispatch rule of section 4.2 that request r matches; 4 is "ignored".
Rule(r) ==
    IF r.header = "push" THEN 1
    ELSE IF r.header = "pull_request" /\ ActionIs(r.payload, S_opened) THEN 2
    ELSE IF r.header = "pull_request" /\ ActionIs(r.payload, S_closed)
            /\ MergedIsTrue(r.payload) THEN 3
    ELSE 4

\* Every event document the system holds: stored, or about to be inserted.
Docs ==
    {store[i] : i \in 1..Len(store)}
        \cup {ev[w].doc : w \in {v \in Workers : pc[v] = "insert"}}

\* C1: for header "pull_request" and action "closed", the outcome is
\* processed with exactly one "merge" record stored if and only if
\* pull_request.merged == true; otherwise the outcome is ignored and nothing
\* is stored.
C1_ClosedStoredIffMerged ==
    \A w \in Workers :
        (Done(w) /\ req[w].header = "pull_request"
                 /\ ActionIs(req[w].payload, S_closed))
        => IF MergedIsTrue(req[w].payload)
           THEN /\ outcome[w] = "processed"
                /\ appended[w] = 1
                /\ store[Len(store)].action = Str(S_merge)
           ELSE outcome[w] = "ignored" /\ appended[w] = 0

\* C2: a delivery that matches none of the three dispatch rules is ignored,
\* never failed, and stores nothing.
C2_UnmatchedIgnored ==
    \A w \in Workers :
        (Done(w) /\ Rule(req[w]) = 4)
        => outcome[w] = "ignored" /\ appended[w] = 0

\* C5: a delivery that matches a dispatch rule never fails because of the
\* shape of its payload: it fails only if the storage call was made and
\* failed.
C5_ShapeNeverFails ==
    \A w \in Workers :
        (Done(w) /\ Rule(req[w]) # 4 /\ outcome[w] = "failed")
        => attempts[w] > 0

\* payload.ref with a leading "refs/heads/" removed, otherwise unchanged.
StripLeading(ref) ==
    IF Len(ref) >= Len(S_refs_heads)
       /\ SubSeq(ref, 1, Len(S_refs_heads)) = S_refs_heads
    THEN SubSeq(ref, Len(S_refs_heads) + 1, Len(ref))
    ELSE ref

\* C7: the to_branch of a push is payload.ref without its leading
\* "refs/heads/", and payload.ref itself when it does not start with it.
C7_LeadingPrefixOnly ==
    \A d \in Docs :
        (d.action = Str(S_push) /\ "ref" \in DOMAIN d.raw_payload.o
                                /\ d.raw_payload.o["ref"].t = "str")
        => d.to_branch = Str(StripLeading(d.raw_payload.o["ref"].s))

\* The message template of a document's action, filled from the document's
\* own fields.
Template(d) ==
    IF d.action = Str(S_push)
    THEN PyStr(d.author) \o S_pushed_to \o PyStr(d.to_branch)
         \o S_on \o PyStr(d.timestamp)
    ELSE IF d.action = Str(S_pull_request)
    THEN PyStr(d.author) \o S_submitted \o PyStr(d.from_branch) \o S_to
         \o PyStr(d.to_branch) \o S_on \o PyStr(d.timestamp)
    ELSE PyStr(d.author) \o S_merged_branch \o PyStr(d.from_branch) \o S_to
         \o PyStr(d.to_branch) \o S_on \o PyStr(d.timestamp)

\* C8: the message of every document, produced or stored, is the template
\* of its action filled from its own author, branches and timestamp.
C8_MessageRebuilds == \A d \in Docs : d.message = Str(Template(d))

\* C8 witness: a merge document is stored whose timestamp was reformatted
\* and whose author is not the placeholder, and its message rebuilds.
C8_Witness ==
    \E i \in 1..Len(store) :
        /\ store[i].action = Str(S_merge)
        /\ store[i].author = Str(T_bob)
        /\ store[i].timestamp # Str(T_iso_offset)
        /\ store[i].message = Str(Template(store[i]))

CountAt(docs, c) == Cardinality({i \in 1..Len(docs) : docs[i].created_at = c})

\* page is what section 4.3 asks of a read over the documents docs:
\* min(n, 20) of them, those with the greatest created_at, newest first,
\* each without raw_payload and _id and otherwise as stored.
GoodPage(page, docs) ==
    LET n == Len(docs)
        m == Len(page)
        newer(c) == Cardinality({i \in 1..n : docs[i].created_at > c})
        room(c) == IF m > newer(c) THEN m - newer(c) ELSE 0
    IN  /\ m = (IF n < 20 THEN n ELSE 20)
        /\ \A k \in 1..(m - 1) : page[k].created_at >= page[k + 1].created_at
        /\ \A k \in 1..m :
              /\ "raw_payload" \notin DOMAIN page[k]
              /\ "_id" \notin DOMAIN page[k]
              /\ \E i \in 1..n :
                    /\ DOMAIN page[k] = (DOMAIN docs[i]) \ {"_id", "raw_payload"}
                    /\ \A f \in DOMAIN page[k] : page[k][f] = docs[i][f]
        /\ \A i \in 1..n :
              LET c == docs[i].created_at
              IN  CountAt(page, c) = Min(CountAt(docs, c), room(c))

\* Worker w has returned from get_events().
ReadDone(w) == pc[w] = "done" /\ op[w] = "events"

\* C3, as claimed: whatever was stored, the read path returns min(n, 20)
\* records, the newest, newest first, without raw_payload and _id.
C3_ReadAlwaysReturnsPage ==
    \A w \in Workers :
        ReadDone(w)
        => outcome[w] = "ok" /\ GoodPage(events[w], SubSeq(store, 1, readN[w]))

\* C3, amended: a read whose query succeeds returns that page; a read whose
\* query fails returns the error object and no records.
C3_ReadReturnsPageOrError ==
    \A w \in Workers :
        ReadDone(w)
        => IF outcome[w] = "ok"
           THEN GoodPage(events[w], SubSeq(store, 1, readN[w]))
           ELSE outcome[w] = "failed" /\ events[w] = <<>>

\* C3 witness: a successful read over 21 documents that were not stored in
\* created_at order returned 20 records, not all of one instant.
C3_Witness ==
    \E w \in Workers :
        /\ ReadDone(w) /\ outcome[w] = "ok"
        /\ readN[w] = 21
        /\ Len(events[w]) = 20
        /\ events[w][1].created_at > events[w][20].created_at
        /\ \E i \in 1..readN[w] : \E j \in (i + 1)..readN[w] :
              store[i].created_at > store[j].created_at

\* C4, as claimed: created_at never decreases along the insertion order.
C4_MonotoneInInsertionOrder ==
    \A j \in 1..Len(store) : \A i \in 1..(j - 1) :
        store[i].created_at <= store[j].created_at

\* C4, amended: a document is never older than a document that was already
\* stored when its delivery read the clock.
C4_MonotoneAfterStored ==
    \A j \in 1..Len(store) : \A i \in 1..seenAt[j] :
        store[i].created_at <= store[j].created_at

\* C4 witness: a delivery that began after a document was stored has stored
\* a strictly newer one.
C4_Witness ==
    \E j \in 1..Len(store) :
        seenAt[j] >= 1 /\ store[1].created_at < store[j].created_at

\* C6: a request calls insert_one at most once; when the call fails the
\* request is over with the outcome failed and nothing stored; a failed
\* request has stored nothing and a processed one has stored its document.
C6_FailedStoresNothing ==
    \A w \in Workers :
        op[w] = "webhook"
        => /\ attempts[w] <= 1
           /\ (attempts[w] = 1 /\ appended[w] = 0)
                 => (pc[w] = "done" /\ outcome[w] = "failed")
           /\ outcome[w] = "failed" => (pc[w] = "done" /\ appended[w] = 0)
           /\ outcome[w] = "processed" => (appended[w] = 1 /\ attempts[w] = 1)

\* C6 witness: a request whose insert failed has returned failed, and
\* another worker's document is in the store.
C6_Witness ==
    \E w \in Workers :
        /\ Done(w) /\ outcome[w] = "failed" /\ attempts[w] = 1
        /\ Len(store) >= 1

\* C9: every step leaves the documents already stored in place and
\* unchanged; the store grows by one document exactly in the step in which
\* a request becomes processed, and a request that ends ignored or a read
\* leaves it as it was.
C9_AppendOnly ==
    [][ /\ Len(store') >= Len(store)
        /\ SubSeq(store', 1, Len(store)) = store
        /\ Len(store') <= Len(store) + 1
        /\ Len(store') = Len(store) + 1
              <=> \E w \in Workers :
                     outcome[w] # "processed" /\ outcome'[w] = "processed"
        /\ \A w \in Workers :
              (outcome'[w] \in {"ignored", "ok"} /\ pc'[w] = "done"
                  /\ (pc[w] # pc'[w] \/ op[w] # op'[w] \/ req[w] # req'[w]
                      \/ outcome[w] # outcome'[w] \/ events[w] # events'[w]))
              => store' = store
        /\ \A w \in Workers :
              /\ outcome'[w] = "processed" => appended'[w] = 1
              /\ outcome'[w] = "ignored" => appended'[w] = 0
      ]_vars

\* C9 witness: the store is full, one worker's request was processed and
\* the other worker has read the events.
C9_Witness ==
    /\ Len(store) = MaxStore
    /\ \E w \in Workers : Done(w) /\ outcome[w] = "processed"
    /\ \E w \in Workers : ReadDone(w) /\ outcome[w] = "ok" /\ readN[w] = MaxStore

=============================================================================
